---- MODULE Spec2Model ----
(***************************************************************************)
(* A model of the journey trip-planning API (internal/api/api.go), its     *)
(* mailer (internal/mailer/mailpit/mailpit.go) and the rows of the store   *)
(* the handlers read and write.  Every HTTP request runs on its own        *)
(* goroutine, so a handler is split into one step per store call: the      *)
(* statements between two store calls touch only the handler's locals.     *)
(* The store (package pgstore) is not part of the sources at hand; its     *)
(* operations are modelled from the specification's Entity Store contract. *)
(***************************************************************************)
EXTENDS Integers, FiniteSets, Sequences, TLC

\* ------------------------------------------------------------- bounds
NReq == 2        \* request slots: requests served in one behaviour
MaxTrips == 2    \* trip IDs the store can hold
MaxParts == 2    \* participant IDs the store can hold
MaxPosts == 1    \* request slots that may carry a POST /trips
MaxSends == 1    \* invocations of SendTripConfirmedEmails in one behaviour
MaxActs == 3     \* activities in the store before the first request
MaxTime == 3     \* timestamps run over 0..MaxTime
TicksPerDay == 2 \* clock ticks in a calendar day

Reqs == 1..NReq
TripIDs == 1..MaxTrips
PartIDs == 1..MaxParts

\* A path parameter that uuid.Parse rejects, and uuid.Nil.
BadID == -1
NilID == 0

VARIABLES
    trips,          \* table trips: TripIDs -> row
    participants,   \* table participants: PartIDs -> row
    activities,     \* table activities: set of rows
    links,          \* table links: set of rows
    req,            \* per request slot: the handler's position, locals, response
    mail,           \* per request slot: the goroutine started by PostTrips
    everConfirmed   \* history: trips whose is_confirmed has been true

vars == <<trips, participants, activities, links, req, mail, everConfirmed>>

\* ------------------------------------------------------------ messages
MsgOK200 == "200"
MsgCreated201 == "201"
MsgNoContent204 == "204"
MsgPanic == "panic: not implemented"
MsgInvalidUUID == "uuid invalido"
MsgParticipantNotFound == "participante nao encontrado"
MsgAlreadyConfirmed == "participante ja confirmado"
MsgTryAgain == "something went wrong, try again"
MsgInvalidTripID == "invalid trip id"
MsgTripNotFound == "trip not found"
MsgInvalidJSON == "invalid JSON"
MsgInvalidInput == "invalid input"

\* Error kinds a store call returns.  pgx.ErrNoRows is the only one the
\* handlers tell apart (errors.Is); every other error takes the generic path.
ErrNil == "nil"
ErrNoRows == "pgx.ErrNoRows"
ErrForeignKey == "foreign_key_violation"
ErrDB == "db_error"
ErrCtx == "context canceled"

\* ---------------------------------------------------------------- rows
NoTrip == [exists |-> FALSE, destination |-> "", starts_at |-> 0, ends_at |-> 0,
           is_confirmed |-> FALSE]
NoParticipant == [exists |-> FALSE, trip_id |-> NilID, is_confirmed |-> FALSE]

\* Request bodies: kind "badjson" fails json Decode, "invalid" fails the
\* validator, "ok" passes both.
Body(k, d, s, e) == [kind |-> k, destination |-> d, starts_at |-> s, ends_at |-> e]
NoBody == Body("none", "", 0, 0)
ValidBodies == {Body("ok", "Paris", 1, 2), Body("ok", "Rome", 2, 3)}
Bodies == ValidBodies \cup {Body("badjson", "", 0, 0), Body("invalid", "", 0, 0)}

\* The trip object of a GET /trips/{tripId} response.
TripObj(d, s, e, i, c) ==
    [destination |-> d, starts_at |-> s, ends_at |-> e, id |-> i, is_confirmed |-> c]
NoTripObj == TripObj("", 0, 0, NilID, FALSE)

IdleReq == [op |-> "idle", pc |-> "idle", id |-> NilID, body |-> NoBody,
            seen |-> FALSE, err |-> ErrNil, resp |-> "", outID |-> NilID,
            outLinks |-> {}, outList |-> <<>>, outGroups |-> <<>>,
            outTrip |-> NoTripObj,
            cancelled |-> FALSE,
            \* history fields, read by the properties only
            fault |-> FALSE, overlap |-> FALSE, dirty |-> FALSE,
            state0 |-> "", calls |-> 0]
NoMail == [pc |-> "none", tripID |-> NilID, err |-> ErrNil, result |-> "",
           logged |-> FALSE, cancelSeen |-> FALSE,
           \* SendTripConfirmedEmails: the participants read and those emailed
           list |-> <<>>, sent |-> <<>>]

InFlight(r) == req[r].pc \notin {"idle", "done"}
\* Slots are taken in order, which leaves out only renamings of the requests.
CanStart(r) == req[r].pc = "idle" /\ \A q \in Reqs : q < r => req[q].pc # "idle"

\* uuid.Parse: an error for a malformed string.
ParseUUID(s) == IF s = BadID THEN [err |-> "invalid UUID", id |-> NilID]
                ELSE [err |-> ErrNil, id |-> s]

\* ------------------------------------------------- store: participants
GetParticipant(id) ==
    IF id \in PartIDs /\ participants[id].exists
    THEN [err |-> ErrNil, row |-> participants[id]]
    ELSE [err |-> ErrNoRows, row |-> NoParticipant]

\* UPDATE participants SET is_confirmed = true WHERE id = $1
ConfirmParticipant(id) ==
    IF id \in PartIDs /\ participants[id].exists
    THEN [participants EXCEPT ![id].is_confirmed = TRUE]
    ELSE participants

\* ------------------- PATCH /participants/{participantId}/confirm
\* Faulty variant: the handler without its IsConfirmed check.
IsConfirmedCheck_NoCheck(participant) == FALSE
\* api.go:143  if participant.IsConfirmed
IsConfirmedCheck(participant) == participant.is_confirmed

ParticipantState(id) ==
    IF ~(id \in PartIDs /\ participants[id].exists) THEN "absent"
    ELSE IF participants[id].is_confirmed THEN "confirmed" ELSE "unconfirmed"

\* Faulty variant: ConfirmParticipant is called before IsConfirmed is checked.
PatchGetParticipant_ConfirmsFirst(r) ==
    /\ CanStart(r)
    /\ \E participantID \in PartIDs :
         LET got == GetParticipant(participantID)
             base == [IdleReq EXCEPT !.op = "patchConfirm", !.id = participantID,
                                     !.state0 = ParticipantState(participantID)]
         IN  /\ got.err = ErrNil
             /\ participants' = ConfirmParticipant(participantID)
             /\ req' = [req EXCEPT ![r] =
                   [base EXCEPT !.pc = "done", !.calls = 1,
                                !.resp = IF IsConfirmedCheck(got.row)
                                         THEN MsgAlreadyConfirmed ELSE MsgNoContent204]]
    /\ UNCHANGED <<trips, activities, links, mail, everConfirmed>>
\* uuid.Parse, store.GetParticipant and the IsConfirmed check.
PatchGetParticipant(r) ==
    /\ CanStart(r)
    /\ \E participantID \in PartIDs \cup {BadID, MaxParts + 1}, fault \in BOOLEAN :
         LET parsed == ParseUUID(participantID)
             got == IF fault THEN [err |-> ErrDB, row |-> NoParticipant]
                    ELSE GetParticipant(parsed.id)
             busy == \E q \in Reqs : q # r /\ InFlight(q)
             base == [IdleReq EXCEPT !.op = "patchConfirm", !.id = participantID,
                                     !.state0 = ParticipantState(participantID)]
             end(msg) == [base EXCEPT !.pc = "done", !.resp = msg]
         IN  IF parsed.err # ErrNil
             THEN /\ ~fault
                  /\ req' = [req EXCEPT ![r] = end(MsgInvalidUUID)]
             ELSE req' = [q \in Reqs |->
                    IF q = r
                    THEN [(IF got.err = ErrNoRows THEN end(MsgParticipantNotFound)
                           ELSE IF got.err # ErrNil THEN end(MsgTryAgain)
                           ELSE IF IsConfirmedCheck(got.row) THEN end(MsgAlreadyConfirmed)
                           ELSE [base EXCEPT !.pc = "confirm", !.seen = got.row.is_confirmed])
                          EXCEPT !.fault = fault, !.err = got.err, !.overlap = busy]
                    ELSE IF InFlight(q) THEN [req[q] EXCEPT !.overlap = TRUE]
                    ELSE req[q]]
    /\ UNCHANGED <<trips, participants, activities, links, mail, everConfirmed>>

\* Faulty variant: a confirmation that also starts a mailer task.
PatchConfirmParticipant_Notifies(r) ==
    /\ req[r].op = "patchConfirm" /\ req[r].pc = "confirm"
    /\ participants' = ConfirmParticipant(req[r].id)
    /\ req' = [req EXCEPT ![r].pc = "done", ![r].calls = @ + 1,
                          ![r].resp = MsgNoContent204]
    /\ mail' = [mail EXCEPT ![r].pc = "started"]
    /\ UNCHANGED <<trips, activities, links, everConfirmed>>
\* store.ConfirmParticipant and the response.
PatchConfirmParticipant(r) ==
    /\ req[r].op = "patchConfirm" /\ req[r].pc = "confirm"
    /\ \E fault \in BOOLEAN :
         /\ participants' = IF fault THEN participants ELSE ConfirmParticipant(req[r].id)
         /\ req' = [req EXCEPT ![r].pc = "done",
                               ![r].calls = @ + 1,
                               ![r].fault = fault,
                               ![r].err = IF fault THEN ErrDB ELSE ErrNil,
                               ![r].resp = IF fault THEN MsgTryAgain ELSE MsgNoContent204]
    /\ UNCHANGED <<trips, activities, links, mail, everConfirmed>>

PatchParticipantsParticipantIDConfirm(r) ==
    PatchGetParticipant(r) \/ PatchConfirmParticipant(r)

\* -------------------------------------------------------- store: trips
TripExists(id) == id \in TripIDs /\ trips[id].exists

GetTrip(id) ==
    IF TripExists(id) THEN [err |-> ErrNil, row |-> trips[id]]
    ELSE [err |-> ErrNoRows, row |-> NoTrip]

\* UPDATE trips SET destination, ends_at, starts_at, is_confirmed WHERE id = $5
UpdateTrip(arg) ==
    IF TripExists(arg.id)
    THEN [trips EXCEPT ![arg.id] = [exists |-> TRUE,
                                    destination |-> arg.destination,
                                    starts_at |-> arg.starts_at,
                                    ends_at |-> arg.ends_at,
                                    is_confirmed |-> arg.is_confirmed]]
    ELSE trips

\* Requests that have read trip t and not yet written it back see a stale row
\* once another write to t commits.
MarkDirty(rq, t, writer) ==
    [q \in Reqs |-> IF q # writer /\ rq[q].op = "putTrip" /\ rq[q].pc = "update"
                       /\ rq[q].id = t
                    THEN [rq[q] EXCEPT !.dirty = TRUE] ELSE rq[q]]

Confirmed(tr) == {t \in TripIDs : tr[t].exists /\ tr[t].is_confirmed}

\* The store write of a trip confirmation: is_confirmed false -> true.
StoreConfirmTrip(t) ==
    /\ TripExists(t) /\ ~trips[t].is_confirmed
    /\ trips' = [trips EXCEPT ![t].is_confirmed = TRUE]
    /\ req' = MarkDirty(req, t, 0)
    /\ everConfirmed' = everConfirmed \cup {t}
    /\ UNCHANGED <<participants, activities, links, mail>>

\* ------------------------------------------------- PUT /trips/{tripId}
TripState(id) ==
    IF ~TripExists(id) THEN "absent"
    ELSE IF trips[id].is_confirmed THEN "confirmed" ELSE "unconfirmed"

\* Faulty variant: IsConfirmed left at its zero value in the parameters.
UpdateTripParams_ZeroConfirmed(id, body, trip) ==
    [id |-> id, destination |-> body.destination, starts_at |-> body.starts_at,
     ends_at |-> body.ends_at, is_confirmed |-> FALSE]
\* api.go:252-257  pgstore.UpdateTripParams{...}
UpdateTripParams(id, body, trip) ==
    [id |-> id, destination |-> body.destination, starts_at |-> body.starts_at,
     ends_at |-> body.ends_at, is_confirmed |-> trip.is_confirmed]

\* Faulty variant: the body is decoded and validated before the trip is read.
PutGetTrip_DecodesFirst(r) ==
    /\ CanStart(r)
    /\ \E tripID \in TripIDs \cup {BadID}, body \in Bodies, fault \in BOOLEAN :
         LET parsed == ParseUUID(tripID)
             got == IF fault THEN [err |-> ErrDB, row |-> NoTrip] ELSE GetTrip(parsed.id)
             base == [IdleReq EXCEPT !.op = "putTrip", !.id = tripID,
                                     !.state0 = TripState(tripID)]
             end(msg) == [base EXCEPT !.pc = "done", !.resp = msg]
             notFound == [end(MsgTripNotFound) EXCEPT !.body.kind = body.kind]
         IN  IF parsed.err # ErrNil
             THEN /\ ~fault
                  /\ req' = [req EXCEPT ![r] = end(MsgInvalidTripID)]
             ELSE IF body.kind # "ok"
             THEN /\ ~fault
                  /\ req' = [req EXCEPT ![r] =
                       end(IF body.kind = "badjson" THEN MsgInvalidJSON ELSE MsgInvalidInput)]
             ELSE req' = [req EXCEPT ![r] =
                    [(IF got.err = ErrNoRows THEN notFound
                      ELSE IF got.err # ErrNil THEN end(MsgTryAgain)
                      ELSE [base EXCEPT !.pc = "update", !.body = body,
                                        !.seen = got.row.is_confirmed])
                     EXCEPT !.fault = fault, !.err = got.err]]
    /\ UNCHANGED <<trips, participants, activities, links, mail, everConfirmed>>
\* uuid.Parse, store.GetTrip, then the body's decoding and validation.  Of a
\* request for an absent trip the kind of its unread body is kept.
PutGetTrip(r) ==
    /\ CanStart(r)
    /\ \E tripID \in TripIDs \cup {BadID}, body \in Bodies, fault \in BOOLEAN :
         LET parsed == ParseUUID(tripID)
             got == IF fault THEN [err |-> ErrDB, row |-> NoTrip] ELSE GetTrip(parsed.id)
             base == [IdleReq EXCEPT !.op = "putTrip", !.id = tripID,
                                     !.state0 = TripState(tripID)]
             end(msg) == [base EXCEPT !.pc = "done", !.resp = msg]
             notFound == [end(MsgTripNotFound) EXCEPT !.body.kind = body.kind]
         IN  IF parsed.err # ErrNil
             THEN /\ ~fault
                  /\ req' = [req EXCEPT ![r] = end(MsgInvalidTripID)]
             ELSE req' = [req EXCEPT ![r] =
                    [(IF got.err = ErrNoRows THEN notFound
                      ELSE IF got.err # ErrNil THEN end(MsgTryAgain)
                      ELSE IF body.kind = "badjson" THEN end(MsgInvalidJSON)
                      ELSE IF body.kind # "ok" THEN end(MsgInvalidInput)
                      ELSE [base EXCEPT !.pc = "update", !.body = body,
                                        !.seen = got.row.is_confirmed])
                     EXCEPT !.fault = fault, !.err = got.err]]
    /\ UNCHANGED <<trips, participants, activities, links, mail, everConfirmed>>

\* store.UpdateTrip and the response; the handler's locals end with it.
PutUpdateTrip(r) ==
    /\ req[r].op = "putTrip" /\ req[r].pc = "update"
    /\ \E fault \in BOOLEAN :
         LET trip == [NoTrip EXCEPT !.is_confirmed = req[r].seen]
             arg == UpdateTripParams(req[r].id, req[r].body, trip)
             fin == [req EXCEPT ![r].pc = "done",
                                ![r].body = NoBody,
                                ![r].seen = FALSE,
                                ![r].calls = @ + 1,
                                ![r].fault = fault,
                                ![r].err = IF fault THEN ErrDB ELSE ErrNil,
                                ![r].resp = IF fault THEN MsgTryAgain ELSE MsgNoContent204]
         IN  /\ trips' = IF fault THEN trips ELSE UpdateTrip(arg)
             /\ req' = IF fault THEN fin ELSE MarkDirty(fin, req[r].id, r)
             /\ everConfirmed' = everConfirmed \cup Confirmed(trips')
    /\ UNCHANGED <<participants, activities, links, mail>>

PutTripsTripID(r) == PutGetTrip(r) \/ PutUpdateTrip(r)

\* --------------------------------------------- GET /trips/{tripId}/confirm
\* api.go:353-355: the handler panics before it reads or writes anything;
\* net/http recovers the panic and the request ends without a response.
GetTripsTripIDConfirm(r) ==
    /\ CanStart(r)
    /\ \E tripID \in TripIDs \cup {BadID} :
         req' = [req EXCEPT ![r] = [IdleReq EXCEPT !.op = "confirmTrip", !.pc = "done",
                                                   !.id = tripID, !.resp = MsgPanic,
                                                   !.state0 = TripState(tripID)]]
    /\ UNCHANGED <<trips, participants, activities, links, mail, everConfirmed>>

\* ------------------------------------------------- GET /trips/{tripId}
\* Faulty variant: StartsAt and EndsAt exchanged in the response.
GetTripDetailsResponse_DatesSwapped(tripID, trip) ==
    TripObj(trip.destination, trip.ends_at, trip.starts_at, tripID, trip.is_confirmed)
\* api.go:212-220  spec.GetTripDetailsResponseTripObj{...}
GetTripDetailsResponse(tripID, trip) ==
    TripObj(trip.destination, trip.starts_at, trip.ends_at, tripID, trip.is_confirmed)

GetTripsTripID(r) ==
    /\ CanStart(r)
    /\ \E tripID \in TripIDs \cup {BadID}, fault \in BOOLEAN :
         LET parsed == ParseUUID(tripID)
             base == [IdleReq EXCEPT !.op = "getTrip", !.pc = "done", !.id = tripID,
                                     !.state0 = TripState(tripID)]
             got == IF fault THEN [err |-> ErrDB, row |-> NoTrip] ELSE GetTrip(parsed.id)
         IN  IF parsed.err # ErrNil
             THEN /\ ~fault
                  /\ req' = [req EXCEPT ![r] = [base EXCEPT !.resp = MsgInvalidTripID]]
             ELSE req' = [req EXCEPT ![r] =
                    [base EXCEPT !.calls = 1, !.fault = fault, !.err = got.err,
                                 !.outTrip = IF got.err = ErrNil
                                             THEN GetTripDetailsResponse(tripID, got.row)
                                             ELSE NoTripObj,
                                 !.resp = IF got.err = ErrNoRows THEN MsgTripNotFound
                                          ELSE IF got.err # ErrNil THEN MsgTryAgain
                                          ELSE MsgOK200]]
    /\ UNCHANGED <<trips, participants, activities, links, mail, everConfirmed>>

\* ------------------------------------------------------- POST /trips
FreeTripIDs == {t \in TripIDs : ~trips[t].exists}

\* INSERT INTO trips ... RETURNING id: a new row with a fresh random id,
\* is_confirmed at its default.
CreateTrip(id, body) ==
    [trips EXCEPT ![id] = [exists |-> TRUE, destination |-> body.destination,
                           starts_at |-> body.starts_at, ends_at |-> body.ends_at,
                           is_confirmed |-> FALSE]]

\* json.NewDecoder(r.Body).Decode(&body)
DecodeCreateTripRequest(body) == IF body.kind = "badjson" THEN "invalid JSON" ELSE ErrNil

\* Faulty variant: a validator that accepts every decoded body.
ValidateCreateTripRequest_AcceptsAll(body) == ErrNil
\* api.validator.Struct(body)
ValidateCreateTripRequest(body) == IF body.kind = "invalid" THEN "invalid input" ELSE ErrNil

\* Decode, validate and store.CreateTrip(r.Context(), ...).  A request whose
\* context is already cancelled gets the context's error from the store.
PostCreateTrip(r) ==
    /\ CanStart(r) /\ r <= MaxPosts
    /\ \E body \in Bodies, failure \in {ErrNil, ErrDB, ErrCtx} :
         LET base == [IdleReq EXCEPT !.op = "postTrips", !.body = body]
             end(msg) == [base EXCEPT !.pc = "done", !.resp = msg]
         IN  IF DecodeCreateTripRequest(body) # ErrNil
             THEN /\ failure = ErrNil
                  /\ req' = [req EXCEPT ![r] = end(MsgInvalidJSON)]
                  /\ UNCHANGED trips
             ELSE IF ValidateCreateTripRequest(body) # ErrNil
             THEN /\ failure = ErrNil
                  /\ req' = [req EXCEPT ![r] = end(MsgInvalidInput)]
                  /\ UNCHANGED trips
             ELSE IF failure # ErrNil
             THEN /\ req' = [req EXCEPT ![r] =
                       [base EXCEPT !.pc = "spawn", !.err = failure, !.outID = NilID,
                                    !.fault = TRUE, !.calls = 1,
                                    !.cancelled = (failure = ErrCtx)]]
                  /\ UNCHANGED trips
             ELSE \E tripID \in FreeTripIDs :
                  /\ trips' = CreateTrip(tripID, body)
                  /\ req' = [req EXCEPT ![r] =
                       [base EXCEPT !.pc = "spawn", !.outID = tripID, !.calls = 1]]
    /\ UNCHANGED <<participants, activities, links, mail, everConfirmed>>

\* api.go:178  go func() { ... }()
PostSpawn(r) ==
    /\ req[r].op = "postTrips" /\ req[r].pc = "spawn"
    /\ req' = [req EXCEPT ![r].pc = "return"]
    /\ mail' = [mail EXCEPT ![r] = [NoMail EXCEPT !.pc = "started",
                                                  !.tripID = req[r].outID]]
    /\ UNCHANGED <<trips, participants, activities, links, everConfirmed>>

\* Faulty variant: the email is sent synchronously and its error is returned.
PostReturn_SurfacesMailError(r) ==
    /\ req[r].op = "postTrips" /\ req[r].pc = "return"
    /\ mail[r].pc = "done"
    /\ req' = [req EXCEPT ![r].pc = "done",
                          ![r].resp = IF req[r].err # ErrNil \/ mail[r].result # "sent"
                                      THEN MsgTryAgain ELSE MsgCreated201]
    /\ UNCHANGED <<trips, participants, activities, links, mail, everConfirmed>>
\* Faulty variant: the handler waits for the mailer task before it answers.
PostReturn_WaitsForMail(r) ==
    /\ req[r].op = "postTrips" /\ req[r].pc = "return"
    /\ mail[r].pc = "done"
    /\ req' = [req EXCEPT ![r].pc = "done",
                          ![r].resp = IF req[r].err # ErrNil
                                      THEN MsgTryAgain ELSE MsgCreated201]
    /\ UNCHANGED <<trips, participants, activities, links, mail, everConfirmed>>
\* api.go:186-191: the response depends on CreateTrip's error alone.
PostReturn(r) ==
    /\ req[r].op = "postTrips" /\ req[r].pc = "return"
    /\ req' = [req EXCEPT ![r].pc = "done",
                          ![r].resp = IF req[r].err # ErrNil
                                      THEN MsgTryAgain ELSE MsgCreated201]
    /\ UNCHANGED <<trips, participants, activities, links, mail, everConfirmed>>

PostTrips(r) == PostCreateTrip(r) \/ PostSpawn(r) \/ PostReturn(r)

\* The request's context ends: the client disconnects, or net/http cancels
\* it once the handler has returned.
CancelRequest(r) ==
    /\ req[r].op = "postTrips" /\ req[r].pc \in {"spawn", "return", "done"}
    /\ ~req[r].cancelled
    /\ req' = [req EXCEPT ![r].cancelled = TRUE]
    /\ UNCHANGED <<trips, participants, activities, links, mail, everConfirmed>>

\* ------------------------- MailPit.SendConfirmTripEmailToTripOwner
\* Faulty variant: the mailer reads the trip under the request's context.
MailerContextDone_Request(r) == req[r].cancelled
\* mailpit.go:28  ctx := context.Background(): never cancelled.
MailerContextDone(r) == FALSE

\* mailpit.go:29-32  m.store.GetTrip(ctx, tripId); an error returns to the
\* goroutine, which logs it (api.go:179-184).
MailGetTrip(r) ==
    /\ mail[r].pc = "started"
    /\ \E fault \in BOOLEAN :
         LET got == IF MailerContextDone(r) THEN [err |-> ErrCtx, row |-> NoTrip]
                    ELSE IF fault THEN [err |-> ErrDB, row |-> NoTrip]
                    ELSE GetTrip(mail[r].tripID)
         IN  mail' = [mail EXCEPT ![r] =
               IF got.err # ErrNil
               THEN [@ EXCEPT !.pc = "done", !.result = "get_trip_error",
                              !.logged = TRUE, !.err = got.err,
                              !.cancelSeen = req[r].cancelled]
               ELSE [@ EXCEPT !.pc = "read", !.cancelSeen = req[r].cancelled]]
    /\ UNCHANGED <<trips, participants, activities, links, req, everConfirmed>>

\* mailpit.go:34-65: build the message, create the client, DialAndSend; an
\* error of any of them returns to the goroutine, which logs it.
MailSend(r) ==
    /\ mail[r].pc = "read"
    /\ \E outcome \in {"sent", "send_error"} :
         mail' = [mail EXCEPT ![r].pc = "done", ![r].result = outcome,
                              ![r].logged = (outcome # "sent")]
    /\ UNCHANGED <<trips, participants, activities, links, req, everConfirmed>>

SendConfirmTripEmailToTripOwner(r) == MailGetTrip(r) \/ MailSend(r)

\* --------------------------------------- store: activities and links
\* INSERT INTO activities (trip_id, title, occurs_at) ... RETURNING id.  The
\* foreign key on trip_id rejects a row whose trip does not exist; that error
\* is a constraint violation, not the "no rows" sentinel.
CreateActivity(arg) ==
    IF ~TripExists(arg.trip_id)
    THEN [err |-> ErrForeignKey, id |-> NilID, rows |-> activities]
    ELSE LET id == Cardinality(activities) + 1
         IN  [err |-> ErrNil, id |-> id,
              rows |-> activities \cup {[id |-> id, trip_id |-> arg.trip_id,
                                         title |-> arg.title,
                                         occurs_at |-> arg.occurs_at]}]

\* SELECT ... FROM links WHERE trip_id = $1: the matching rows, none of them
\* when nothing matches.
GetTripLinks(tripID) ==
    [err |-> ErrNil, rows |-> {l \in links : l.trip_id = tripID}]

ActivityBodies ==
    {[kind |-> "ok", title |-> "museum", occurs_at |-> 1],
     [kind |-> "badjson", title |-> "", occurs_at |-> 0],
     [kind |-> "invalid", title |-> "", occurs_at |-> 0]}

\* ---------------------------------- POST /trips/{tripId}/activities
PostTripsTripIDActivities(r) ==
    /\ CanStart(r)
    /\ \E tripID \in TripIDs \cup {BadID}, body \in ActivityBodies, fault \in BOOLEAN :
         LET parsed == ParseUUID(tripID)
             base == [IdleReq EXCEPT !.op = "postActivity", !.pc = "done", !.id = tripID,
                                     !.state0 = TripState(tripID)]
             \* api.go:334-338  pgstore.CreateActivityParams{...}
             arg == [trip_id |-> parsed.id, title |-> body.title,
                     occurs_at |-> body.occurs_at]
             made == IF fault THEN [err |-> ErrDB, id |-> NilID, rows |-> activities]
                     ELSE CreateActivity(arg)
         IN  IF parsed.err # ErrNil \/ body.kind # "ok"
             THEN /\ ~fault
                  /\ req' = [req EXCEPT ![r] = [base EXCEPT !.resp =
                       IF parsed.err # ErrNil THEN MsgInvalidTripID
                       ELSE IF body.kind = "badjson" THEN MsgInvalidJSON
                       ELSE MsgInvalidInput]]
                  /\ UNCHANGED activities
             ELSE /\ activities' = made.rows
                  /\ req' = [req EXCEPT ![r] =
                       [base EXCEPT !.calls = 1, !.fault = fault, !.err = made.err,
                                    !.outID = made.id,
                                    !.resp = IF made.err = ErrNoRows THEN MsgTripNotFound
                                             ELSE IF made.err # ErrNil THEN MsgTryAgain
                                             ELSE MsgCreated201]]
    /\ UNCHANGED <<trips, participants, links, mail, everConfirmed>>

\* ---------------------------------------- GET /trips/{tripId}/links
GetTripsTripIDLinks(r) ==
    /\ CanStart(r)
    /\ \E tripID \in TripIDs \cup {BadID}, fault \in BOOLEAN :
         LET parsed == ParseUUID(tripID)
             base == [IdleReq EXCEPT !.op = "getLinks", !.pc = "done", !.id = tripID,
                                     !.state0 = TripState(tripID)]
             got == IF fault THEN [err |-> ErrDB, rows |-> {}] ELSE GetTripLinks(parsed.id)
         IN  IF parsed.err # ErrNil
             THEN /\ ~fault
                  /\ req' = [req EXCEPT ![r] = [base EXCEPT !.resp = MsgInvalidTripID]]
             ELSE req' = [req EXCEPT ![r] =
                    [base EXCEPT !.calls = 1, !.fault = fault, !.err = got.err,
                                 !.outLinks = {[id |-> l.id, title |-> l.title,
                                                url |-> l.url] : l \in got.rows},
                                 !.resp = IF got.err = ErrNoRows THEN MsgTripNotFound
                                          ELSE IF got.err # ErrNil THEN MsgTryAgain
                                          ELSE MsgOK200]]
    /\ UNCHANGED <<trips, participants, activities, links, mail, everConfirmed>>

\* ------------------------------------ GET /trips/{tripId}/activities
Times == 0..MaxTime

\* SELECT ... FROM activities WHERE trip_id = $1: the matching rows as a
\* list, here in the order of their ids.
RECURSIVE RowsInOrder(_)
RowsInOrder(rows) ==
    IF rows = {} THEN <<>>
    ELSE LET first == CHOOSE a \in rows : \A b \in rows : a.id <= b.id
         IN  <<first>> \o RowsInOrder(rows \ {first})

GetTripActivities(tripID) ==
    [err |-> ErrNil, rows |-> RowsInOrder({a \in activities : a.trip_id = tripID})]

\* Faulty variant: the whole timestamp as the grouping key.
FormatDateOnly_WholeTime(t) == t
\* api.go:290  Time.Format(time.DateOnly): the calendar date of a timestamp,
\* its time of day dropped.
FormatDateOnly(t) == t \div TicksPerDay

\* api.go:305  time.Parse(time.DateOnly, dateStr): midnight of that date.
ParseDateOnly(dateStr) == dateStr * TicksPerDay

\* api.go:287-292: the map from date string to the activities of that date,
\* each appended in the order of the list.
RECURSIVE GroupActivities(_, _)
GroupActivities(list, grouped) ==
    IF list = <<>> THEN grouped
    ELSE LET activity == Head(list)
             date == FormatDateOnly(activity.occurs_at)
             sofar == IF date \in DOMAIN grouped THEN grouped[date] ELSE <<>>
         IN  GroupActivities(Tail(list),
               [d \in DOMAIN grouped \cup {date} |->
                  IF d = date THEN Append(sofar, activity) ELSE grouped[d]])

EmptyMap == [d \in {} |-> <<>>]

\* api.go:297-303: the response's entry of one activity.
InnerActs(actsOnDate) ==
    [i \in 1..Len(actsOnDate) |-> [id |-> actsOnDate[i].id,
                                   title |-> actsOnDate[i].title,
                                   occurs_at |-> actsOnDate[i].occurs_at]]

\* The orders in which a range over the map can visit its keys.
KeyOrders(keys) ==
    {o \in [1..Cardinality(keys) -> keys] : \A i, j \in DOMAIN o : i # j => o[i] # o[j]}

\* api.go:294-310: one outer entry per key of the map, in the map's order.
OutputActivities(grouped, order) ==
    [i \in 1..Len(order) |-> [date |-> ParseDateOnly(order[i]),
                              activities |-> InnerActs(grouped[order[i]])]]

GetTripsTripIDActivities(r) ==
    /\ CanStart(r)
    /\ \E tripID \in TripIDs \cup {BadID}, fault \in BOOLEAN :
         LET parsed == ParseUUID(tripID)
             base == [IdleReq EXCEPT !.op = "getActivities", !.pc = "done", !.id = tripID,
                                     !.state0 = TripState(tripID)]
             got == IF fault THEN [err |-> ErrDB, rows |-> <<>>]
                    ELSE GetTripActivities(parsed.id)
             grouped == GroupActivities(got.rows, EmptyMap)
         IN  IF parsed.err # ErrNil
             THEN /\ ~fault
                  /\ req' = [req EXCEPT ![r] = [base EXCEPT !.resp = MsgInvalidTripID]]
             ELSE IF got.err # ErrNil
             THEN req' = [req EXCEPT ![r] =
                    [base EXCEPT !.calls = 1, !.fault = fault, !.err = got.err,
                                 !.resp = IF got.err = ErrNoRows THEN MsgTripNotFound
                                          ELSE MsgTryAgain]]
             ELSE \E order \in KeyOrders(DOMAIN grouped) :
                    req' = [req EXCEPT ![r] =
                      [base EXCEPT !.calls = 1, !.outList = got.rows,
                                   !.outGroups = OutputActivities(grouped, order),
                                   !.resp = MsgOK200]]
    /\ UNCHANGED <<trips, participants, activities, links, mail, everConfirmed>>

\* ----------------------------------------------------- specifications
FreshTrip == [exists |-> TRUE, destination |-> "Paris", starts_at |-> 1,
              ends_at |-> 2, is_confirmed |-> FALSE]

InitRequests ==
    /\ req = [r \in Reqs |-> IdleReq]
    /\ mail = [r \in Reqs |-> NoMail]

\* Participants: a store with one trip and any unconfirmed participants of it.
InitParticipants ==
    /\ trips = [t \in TripIDs |-> IF t = 1 THEN FreshTrip ELSE NoTrip]
    /\ participants \in [PartIDs ->
          {NoParticipant, [exists |-> TRUE, trip_id |-> 1, is_confirmed |-> FALSE]}]
    /\ activities = {}
    /\ links = {}
    /\ everConfirmed = {}
    /\ InitRequests

NextParticipants == \E r \in Reqs : PatchParticipantsParticipantIDConfirm(r)

SpecParticipants == InitParticipants /\ [][NextParticipants]_vars

\* Trips: a store holding any of the trips, none confirmed yet.
InitTrips ==
    /\ trips \in [TripIDs -> {NoTrip, FreshTrip}]
    /\ participants = [p \in PartIDs |-> NoParticipant]
    /\ activities = {}
    /\ links = {}
    /\ everConfirmed = {}
    /\ InitRequests

NextTrips ==
    \/ \E r \in Reqs : PutTripsTripID(r)
    \/ \E r \in Reqs : GetTripsTripIDConfirm(r)
    \/ \E t \in TripIDs : StoreConfirmTrip(t)

SpecTrips == InitTrips /\ [][NextTrips]_vars

\* Trip creation: an empty store.
InitPost ==
    /\ trips = [t \in TripIDs |-> NoTrip]
    /\ participants = [p \in PartIDs |-> NoParticipant]
    /\ activities = {}
    /\ links = {}
    /\ everConfirmed = {}
    /\ InitRequests

NextPost ==
    \/ \E r \in Reqs : PostTrips(r)
    \/ \E r \in Reqs : CancelRequest(r)
    \/ \E r \in Reqs : SendConfirmTripEmailToTripOwner(r)

SpecPost == InitPost /\ [][NextPost]_vars

\* The handler's goroutine is scheduled; nothing is assumed of the mailer's.
FairPost == SpecPost /\ \A r \in Reqs : WF_vars(PostSpawn(r) \/ PostReturn(r))

\* Trip creation followed or overtaken by reads of a trip.
NextRoundTrip ==
    \/ NextPost
    \/ \E r \in Reqs : GetTripsTripID(r)

SpecRoundTrip == InitPost /\ [][NextRoundTrip]_vars

\* Activities and links: any of the trips, each with or without a link.
LinkOf(t) == [id |-> t, trip_id |-> t, title |-> "guide", url |-> "https://example.com"]

InitChildren ==
    /\ trips \in [TripIDs -> {NoTrip, FreshTrip}]
    /\ participants = [p \in PartIDs |-> NoParticipant]
    /\ activities = {}
    /\ links \in SUBSET {LinkOf(t) : t \in {u \in TripIDs : trips[u].exists}}
    /\ everConfirmed = {}
    /\ InitRequests

NextChildren ==
    \/ \E r \in Reqs : PostTripsTripIDActivities(r)
    \/ \E r \in Reqs : GetTripsTripIDLinks(r)

SpecChildren == InitChildren /\ [][NextChildren]_vars

\* Listing activities: trip 1 with any list of at most MaxActs activities.
ActivityRow(i, t) == [id |-> i, trip_id |-> 1, title |-> "museum", occurs_at |-> t]

InitActivities ==
    /\ trips = [t \in TripIDs |-> IF t = 1 THEN FreshTrip ELSE NoTrip]
    /\ participants = [p \in PartIDs |-> NoParticipant]
    /\ \E n \in 0..MaxActs : \E at \in [1..n -> Times] :
         activities = {ActivityRow(i, at[i]) : i \in 1..n}
    /\ links = {}
    /\ everConfirmed = {}
    /\ InitRequests

NextActivities == \E r \in Reqs : GetTripsTripIDActivities(r)

SpecActivities == InitActivities /\ [][NextActivities]_vars

\* ------------------------------- MailPit.SendTripConfirmedEmails
\* SELECT ... FROM participants WHERE trip_id = $1: the rows of the trip, in
\* any order.
GetParticipants(tripID) ==
    LET rows == {p \in PartIDs : participants[p].exists /\ participants[p].trip_id = tripID}
    IN  {l \in [1..Cardinality(rows) -> rows] :
           \A i, j \in 1..Cardinality(rows) : l[i] = l[j] => i = j}

\* mailpit.go:69-78: the read of the participants and the mail client.
SendStart(r) ==
    /\ mail[r].pc = "none" /\ r <= MaxSends
    /\ \A q \in Reqs : q < r => mail[q].pc # "none"
    /\ \E tripID \in TripIDs, failure \in {"", "get_participants_error", "client_error"} :
         LET task == [NoMail EXCEPT !.tripID = tripID]
         IN  IF failure # ""
             THEN mail' = [mail EXCEPT ![r] =
                     [task EXCEPT !.pc = "returned", !.result = failure]]
             ELSE \E l \in GetParticipants(tripID) :
                    mail' = [mail EXCEPT ![r] = [task EXCEPT !.pc = "sending", !.list = l]]
    /\ UNCHANGED <<trips, participants, activities, links, req, everConfirmed>>

\* Faulty variant: a failed delivery is skipped and the loop goes on.
SendNext_SkipsFailure(r) ==
    /\ mail[r].pc = "sending"
    /\ LET i == Len(mail[r].sent) + (IF mail[r].result = "" THEN 0 ELSE 1) + 1
       IN  IF i > Len(mail[r].list)
           THEN mail' = [mail EXCEPT ![r].pc = "returned",
                                     ![r].result = IF @ = "" THEN "nil" ELSE @]
           ELSE \E outcome \in {"sent", "to_error", "send_error"} :
                  IF outcome = "sent"
                  THEN mail' = [mail EXCEPT ![r].sent = Append(@, mail[r].list[i])]
                  ELSE /\ mail[r].result = ""
                       /\ mail' = [mail EXCEPT ![r].result = outcome]
    /\ UNCHANGED <<trips, participants, activities, links, req, everConfirmed>>
\* mailpit.go:80-99: one pass of the loop over the participants, or the
\* return nil after the last one; the first error ends the function.
SendNext(r) ==
    /\ mail[r].pc = "sending"
    /\ LET i == Len(mail[r].sent) + 1
       IN  IF i > Len(mail[r].list)
           THEN mail' = [mail EXCEPT ![r].pc = "returned", ![r].result = "nil"]
           ELSE \E outcome \in {"sent", "to_error", "send_error"} :
                  IF outcome = "sent"
                  THEN mail' = [mail EXCEPT ![r].sent = Append(@, mail[r].list[i])]
                  ELSE mail' = [mail EXCEPT ![r].pc = "returned", ![r].result = outcome]
    /\ UNCHANGED <<trips, participants, activities, links, req, everConfirmed>>

SendTripConfirmedEmails(r) == SendStart(r) \/ SendNext(r)

\* --------------------------------------- store: the participants table
\* FOREIGN KEY (trip_id) REFERENCES trips(id)
ParticipantsForeignKey(tripID) == TripExists(tripID)

\* "is_confirmed" BOOLEAN NOT NULL DEFAULT false
ParticipantsDefaultIsConfirmed == FALSE

\* Faulty variant: the participants of a deleted trip are kept.
OnDeleteCascade_KeepsRows(tripID) == participants

\* ON DELETE CASCADE: the participants table after the trip's row is deleted.
OnDeleteCascade(tripID) ==
    [p \in PartIDs |->
       IF participants[p].exists /\ participants[p].trip_id = tripID
       THEN NoParticipant ELSE participants[p]]

\* INSERT INTO participants (trip_id, email): the new row gets a fresh id and
\* the column default of is_confirmed; the foreign key rejects the statement
\* when the trip is absent.
InsertParticipant(r) ==
    /\ CanStart(r)
    /\ \E tripID \in TripIDs \cup {MaxTrips + 1}, fault \in BOOLEAN :
         LET base == [IdleReq EXCEPT !.op = "insertParticipant", !.pc = "done",
                                     !.id = tripID, !.calls = 1, !.fault = fault]
         IN  IF ~fault /\ ParticipantsForeignKey(tripID)
             THEN \E p \in {q \in PartIDs : ~participants[q].exists} :
                    /\ participants' = [participants EXCEPT ![p] =
                          [exists |-> TRUE, trip_id |-> tripID,
                           is_confirmed |-> ParticipantsDefaultIsConfirmed]]
                    /\ req' = [req EXCEPT ![r] = [base EXCEPT !.outID = p]]
             ELSE /\ participants' = participants
                  /\ req' = [req EXCEPT ![r] =
                        [base EXCEPT !.err = IF fault THEN ErrDB ELSE ErrForeignKey]]
    /\ UNCHANGED <<trips, activities, links, mail, everConfirmed>>

\* DELETE FROM trips WHERE id = tripID, with the cascades of the child tables.
DeleteTripRow(tripID) ==
    /\ TripExists(tripID)
    /\ trips' = [trips EXCEPT ![tripID] = NoTrip]
    /\ participants' = OnDeleteCascade(tripID)
    /\ activities' = {a \in activities : a.trip_id # tripID}
    /\ links' = {l \in links : l.trip_id # tripID}
    /\ UNCHANGED <<req, mail, everConfirmed>>

\* Integrity: any trips, each with any participants, confirmed or not.
InitIntegrity ==
    /\ trips \in [TripIDs -> {NoTrip, FreshTrip}]
    /\ participants \in [PartIDs -> {NoParticipant} \cup
          {[exists |-> TRUE, trip_id |-> t, is_confirmed |-> c] :
             t \in {u \in TripIDs : trips[u].exists}, c \in BOOLEAN}]
    /\ activities = {}
    /\ links = {}
    /\ everConfirmed = {}
    /\ InitRequests

NextIntegrity ==
    \/ \E r \in Reqs : InsertParticipant(r)
    \/ \E t \in TripIDs : DeleteTripRow(t)

SpecIntegrity == InitIntegrity /\ [][NextIntegrity]_vars

\* Fan-out: invocations of the mailer over any consistent store.
NextFanout == \E r \in Reqs : SendTripConfirmedEmails(r)

SpecFanout == InitIntegrity /\ [][NextFanout]_vars

\* ------------------------------------------------------------- claims
DonePatch(r) == req[r].op = "patchConfirm" /\ req[r].pc = "done"

\* C1: two sequential confirmations of an existing unconfirmed participant,
\* with no store failure: the first (it finds the participant unconfirmed)
\* answers 204 after one ConfirmParticipant call and leaves is_confirmed
\* true; the second (it finds the participant confirmed) answers "already
\* confirmed" without calling ConfirmParticipant, and is_confirmed is true.
C1_SequentialConfirm ==
    \A r \in Reqs :
      (DonePatch(r) /\ ~req[r].overlap /\ ~req[r].fault) =>
        /\ req[r].state0 = "unconfirmed" =>
             /\ req[r].resp = MsgNoContent204
             /\ req[r].calls = 1
             /\ participants[req[r].id].is_confirmed
        /\ req[r].state0 = "confirmed" =>
             /\ req[r].resp = MsgAlreadyConfirmed
             /\ req[r].calls = 0
             /\ participants[req[r].id].is_confirmed

C1_Witness ==
    \E r1, r2 \in Reqs :
      /\ r1 # r2 /\ DonePatch(r1) /\ DonePatch(r2)
      /\ req[r1].id = req[r2].id
      /\ ~req[r1].overlap /\ ~req[r2].overlap /\ ~req[r1].fault /\ ~req[r2].fault
      /\ req[r1].state0 = "unconfirmed" /\ req[r1].resp = MsgNoContent204
      /\ req[r2].state0 = "confirmed" /\ req[r2].resp = MsgAlreadyConfirmed
      /\ req[r1].calls + req[r2].calls = 1

\* C2: of the confirmation requests on one participant, at most one answers
\* 204, however they interleave.
C2_AtMostOneSuccess ==
    \A p \in PartIDs :
      Cardinality({r \in Reqs : DonePatch(r) /\ req[r].id = p
                                  /\ req[r].resp = MsgNoContent204}) <= 1

PutWrites(r) ==
    /\ req[r].op = "putTrip" /\ req[r].pc = "update"
    /\ req'[r].pc = "done" /\ req'[r].resp = MsgNoContent204

\* C3: an update that runs with no other write to its trip interleaved leaves
\* the trip's is_confirmed as it was (a confirmed trip stays confirmed) and
\* sets destination, starts_at and ends_at to the body's values.
C3_UpdateKeepsConfirmed ==
    [][\A r \in Reqs :
         (PutWrites(r) /\ ~req[r].dirty) =>
           LET t == req[r].id IN
             /\ trips'[t].is_confirmed = trips[t].is_confirmed
             /\ trips'[t].destination = req[r].body.destination
             /\ trips'[t].starts_at = req[r].body.starts_at
             /\ trips'[t].ends_at = req[r].body.ends_at]_vars

C3_Witness ==
    \E r \in Reqs :
      /\ req[r].op = "putTrip" /\ req[r].pc = "done" /\ req[r].resp = MsgNoContent204
      /\ ~req[r].dirty /\ req[r].state0 = "confirmed"
      /\ trips[req[r].id].is_confirmed
      /\ trips[req[r].id].destination = "Rome"

\* C4: a trip's is_confirmed never goes from true back to false, in any
\* interleaving of updates and confirmations.
C4_ConfirmedStaysConfirmed ==
    \A t \in everConfirmed : trips[t].is_confirmed

\* C5: after a call of GetTripsTripIDConfirm on an existing trip, the trip's
\* is_confirmed is true.
C5_ConfirmSetsConfirmed ==
    \A r \in Reqs :
      (req[r].op = "confirmTrip" /\ req[r].pc = "done" /\ req[r].state0 # "absent")
        => trips[req[r].id].is_confirmed

Created(r) == req[r].op = "postTrips" /\ req[r].pc \notin {"idle"} /\ req[r].calls = 1
                /\ req[r].err = ErrNil

\* C6: when store.CreateTrip succeeded, PostTrips answers 201 with the created
\* trip's ID and the trip is in the store, whatever the owner-confirmation
\* email does; a mailer error is logged and changes nothing else.
C6_ResponseIndependentOfMail ==
    \A r \in Reqs :
      (Created(r) /\ req[r].pc = "done") =>
        /\ req[r].resp = MsgCreated201
        /\ TripExists(req[r].outID)
        /\ (mail[r].pc = "done" /\ mail[r].result # "sent") => mail[r].logged

C6_Witness ==
    \E r \in Reqs :
      /\ Created(r) /\ req[r].pc = "done" /\ req[r].resp = MsgCreated201
      /\ mail[r].pc = "done" /\ mail[r].result = "send_error" /\ mail[r].logged

\* C7: once store.CreateTrip has returned, the handler reaches its response,
\* also when the mailer goroutine never runs or never completes.
C7_ResponseWithoutMail ==
    \A r \in Reqs :
      (req[r].op = "postTrips" /\ req[r].pc = "spawn") ~> (req[r].pc = "done")

C7_Witness ==
    \E r \in Reqs :
      /\ req[r].op = "postTrips" /\ req[r].pc = "done" /\ req[r].calls = 1
      /\ mail[r].pc = "started"

\* C8: the owner-confirmation task of a created trip is not cancelled with
\* the request: barring a store failure of its own, its GetTrip succeeds and
\* it goes on to build and send the email, ending sent or failed.
C8_MailNotCancelled ==
    \A r \in Reqs :
      (Created(r) /\ mail[r].pc = "done" /\ mail[r].err # ErrDB) =>
        mail[r].err = ErrNil /\ mail[r].result \in {"sent", "send_error"}

C8_Witness ==
    \E r \in Reqs :
      /\ Created(r) /\ req[r].cancelled /\ mail[r].cancelSeen
      /\ mail[r].pc = "done" /\ mail[r].result = "sent"

\* C9: creating an activity for a well-formed trip ID that references no
\* trip, with a valid body and no store outage, answers "trip not found" and
\* creates no activity.
C9_ActivityOnMissingTripNotFound ==
    \A r \in Reqs :
      (req[r].op = "postActivity" /\ req[r].pc = "done" /\ req[r].calls = 1
         /\ req[r].state0 = "absent" /\ ~req[r].fault) =>
        /\ req[r].resp = MsgTripNotFound
        /\ \A a \in activities : a.trip_id # req[r].id

\* C10: listing the links of a well-formed trip ID that references no trip
\* answers "trip not found", never 200 with an empty list.
C10_LinksOfMissingTripNotFound ==
    \A r \in Reqs :
      (req[r].op = "getLinks" /\ req[r].pc = "done" /\ req[r].calls = 1
         /\ req[r].state0 = "absent" /\ ~req[r].fault) =>
        /\ req[r].resp = MsgTripNotFound
        /\ ~(req[r].resp = MsgOK200 /\ req[r].outLinks = {})

DateOf(t) == t \div TicksPerDay
Listed(r) == req[r].op = "getActivities" /\ req[r].pc = "done" /\ req[r].resp = MsgOK200
\* The positions <<group, index>> of the response that hold activity a.
Places(r, a) ==
    {p \in {<<g, i>> : g \in DOMAIN req[r].outGroups, i \in 1..MaxActs + NReq} :
       /\ p[2] \in DOMAIN req[r].outGroups[p[1]].activities
       /\ req[r].outGroups[p[1]].activities[p[2]].id = a.id}

\* C11: the response partitions the listed activities by calendar date: each
\* activity is in exactly one group; two activities share a group exactly
\* when their occurs_at have the same date; a group's date is the date of
\* each of its activities; no two groups have the same date; no group is
\* empty.
C11_GroupsPartitionByDate ==
    \A r \in Reqs : Listed(r) =>
      LET L == req[r].outList
          G == req[r].outGroups
      IN  /\ \A k \in DOMAIN L : Cardinality(Places(r, L[k])) = 1
          /\ \A k, m \in DOMAIN L :
               (\E g \in DOMAIN G : \E p \in Places(r, L[k]), q \in Places(r, L[m]) :
                   p[1] = g /\ q[1] = g)
                 <=> DateOf(L[k].occurs_at) = DateOf(L[m].occurs_at)
          /\ \A g \in DOMAIN G : \A i \in DOMAIN G[g].activities :
               /\ DateOf(G[g].date) = DateOf(G[g].activities[i].occurs_at)
               /\ \E k \in DOMAIN L : L[k].id = G[g].activities[i].id
                                       /\ L[k].occurs_at = G[g].activities[i].occurs_at
          /\ \A g, h \in DOMAIN G : g # h => G[g].date # G[h].date
          /\ \A g \in DOMAIN G : G[g].activities # <<>>

C11_Witness ==
    \E r \in Reqs :
      /\ Listed(r) /\ Len(req[r].outGroups) = 2 /\ Len(req[r].outList) = 3
      /\ \E g \in DOMAIN req[r].outGroups :
           /\ Len(req[r].outGroups[g].activities) = 2
           /\ req[r].outGroups[g].activities[1].occurs_at
                # req[r].outGroups[g].activities[2].occurs_at

\* C12: a GET of a trip that PostTrips created, with no update or
\* confirmation in between and no store outage, answers 200 with the
\* request's destination, starts_at and ends_at, the trip's ID and
\* is_confirmed false.
C12_CreateGetRoundTrip ==
    \A g, p \in Reqs :
      (/\ req[g].op = "getTrip" /\ req[g].pc = "done" /\ ~req[g].fault
       /\ req[g].state0 # "absent"
       /\ Created(p) /\ req[p].outID = req[g].id) =>
        /\ req[g].resp = MsgOK200
        /\ req[g].outTrip = TripObj(req[p].body.destination, req[p].body.starts_at,
                                    req[p].body.ends_at, req[p].outID, FALSE)

C12_Witness ==
    \E g, p \in Reqs :
      /\ req[g].op = "getTrip" /\ req[g].pc = "done" /\ req[g].resp = MsgOK200
      /\ Created(p) /\ req[p].pc = "done" /\ req[p].resp = MsgCreated201
      /\ req[p].outID = req[g].id
      /\ req[g].outTrip = TripObj("Rome", 2, 3, req[p].outID, FALSE)

PatchSteps(r) == req[r].pc # req'[r].pc /\ req'[r].op = "patchConfirm"

\* C13: no step of PatchParticipantsParticipantIDConfirm, whatever its
\* outcome, starts a mailer task or touches a mailer; the only stored value
\* it can change is is_confirmed of the participant with the given ID.
C13_ConfirmParticipantNotifiesNobody ==
    [][\A r \in Reqs : PatchSteps(r) =>
         /\ mail' = mail
         /\ trips' = trips /\ activities' = activities /\ links' = links
         /\ \A p \in PartIDs :
              /\ p # req'[r].id => participants'[p] = participants[p]
              /\ participants'[p].exists = participants[p].exists
              /\ participants'[p].trip_id = participants[p].trip_id]_vars

C13_Witness ==
    \E r \in Reqs :
      /\ DonePatch(r) /\ req[r].resp = MsgNoContent204 /\ req[r].state0 = "unconfirmed"
      /\ participants[req[r].id].is_confirmed
      /\ \A q \in Reqs : mail[q] = NoMail
      /\ \E p \in PartIDs : p # req[r].id /\ participants[p].exists
                              /\ ~participants[p].is_confirmed

PatchRejections == {MsgInvalidUUID, MsgParticipantNotFound, MsgTryAgain, MsgAlreadyConfirmed}

\* C16: when the ID is malformed, the participant does not exist, the read
\* fails or the participant is already confirmed, the handler ends at or
\* before its IsConfirmed check with a 400 error, has not called
\* ConfirmParticipant and leaves the store as it was; it goes on to the
\* mutation in no other case than a found, unconfirmed participant.
C16_RejectedConfirmChangesNothing ==
    [][\A r \in Reqs : (req[r].pc = "idle" /\ req'[r].op = "patchConfirm") =>
         LET rejected == \/ req'[r].id = BadID
                         \/ req'[r].state0 \in {"absent", "confirmed"}
                         \/ req'[r].fault
         IN  /\ participants' = participants
             /\ req'[r].calls = 0
             /\ rejected => req'[r].pc = "done" /\ req'[r].resp \in PatchRejections
             /\ req'[r].pc = "done" => rejected]_vars

C16_Witness ==
    \E r \in Reqs :
      /\ DonePatch(r) /\ req[r].state0 = "confirmed" /\ ~req[r].fault
      /\ req[r].resp = MsgAlreadyConfirmed /\ req[r].calls = 0
      /\ participants[req[r].id].is_confirmed

InsertSteps(r) == req[r].pc = "idle" /\ req'[r].op = "insertParticipant"

\* C14: every participant row references an existing trip; an insert whose
\* trip_id references no trip is rejected and adds no row, an accepted insert
\* adds exactly one row, of the given trip and with is_confirmed false; a
\* deleted trip takes all of its participants with it.
C14_ParticipantsReferentialIntegrity ==
    /\ [](\A p \in PartIDs :
            participants[p].exists => TripExists(participants[p].trip_id))
    /\ [][\A r \in Reqs : InsertSteps(r) =>
            IF req'[r].err = ErrNil
            THEN /\ TripExists(req'[r].id)
                 /\ ~participants[req'[r].outID].exists
                 /\ participants' = [participants EXCEPT ![req'[r].outID] =
                       [exists |-> TRUE, trip_id |-> req'[r].id,
                        is_confirmed |-> FALSE]]
            ELSE /\ participants' = participants
                 /\ ~TripExists(req'[r].id) => req'[r].err = ErrForeignKey
                                                \/ req'[r].fault]_vars
    /\ [][\A r \in Reqs : (InsertSteps(r) /\ ~TripExists(req'[r].id))
                            => req'[r].err # ErrNil]_vars
    /\ [][\A t \in TripIDs : (trips[t].exists /\ ~trips'[t].exists) =>
            \A p \in PartIDs :
              IF participants[p].exists /\ participants[p].trip_id = t
              THEN ~participants'[p].exists
              ELSE participants'[p] = participants[p]]_vars

C14_Witness ==
    /\ \E r \in Reqs : /\ req[r].op = "insertParticipant" /\ req[r].pc = "done"
                       /\ req[r].err = ErrForeignKey /\ ~req[r].fault
    /\ \E r \in Reqs : /\ req[r].op = "insertParticipant" /\ req[r].pc = "done"
                       /\ req[r].err = ErrNil
                       /\ ~trips[req[r].id].exists
                       /\ ~participants[req[r].outID].exists

\* C15: a mailer task exists only for a request whose store.CreateTrip
\* succeeded, and it carries the ID of the created trip; a request answered
\* 201 has had its task started.
C15_MailTaskOnlyForCreatedTrip ==
    \A r \in Reqs :
      /\ mail[r].pc # "none" =>
           /\ req[r].op = "postTrips" /\ req[r].calls = 1 /\ req[r].err = ErrNil
           /\ mail[r].tripID = req[r].outID /\ req[r].outID \in TripIDs
      /\ (Created(r) /\ req[r].pc = "done") => mail[r].pc # "none"

PostSteps(r) == req[r].pc = "idle" /\ req'[r].op = "postTrips"

\* C17: a PostTrips request whose body fails decoding or validation ends at
\* once with "invalid JSON" or "invalid input": store.CreateTrip is not
\* called, the trips are as they were and no mailer task is started, then or
\* later.
C17_BadBodyRejectedBeforeAnyEffect ==
    /\ [](\A r \in Reqs : (req[r].op = "postTrips" /\ req[r].body.kind # "ok") =>
            /\ req[r].pc = "done"
            /\ req[r].resp = IF req[r].body.kind = "badjson"
                             THEN MsgInvalidJSON ELSE MsgInvalidInput
            /\ req[r].calls = 0 /\ req[r].outID = NilID
            /\ mail[r] = NoMail)
    /\ [][\A r \in Reqs : (PostSteps(r) /\ req'[r].body.kind # "ok") =>
            trips' = trips /\ mail' = mail]_vars

C17_Witness ==
    \E r \in Reqs :
      /\ req[r].op = "postTrips" /\ req[r].pc = "done"
      /\ req[r].body.kind = "invalid" /\ req[r].resp = MsgInvalidInput
      /\ \A t \in TripIDs : ~trips[t].exists

DonePut(r) == req[r].op = "putTrip" /\ req[r].pc = "done"

PutErrors == {MsgInvalidTripID, MsgTripNotFound, MsgInvalidJSON, MsgInvalidInput}

\* C18: PutTripsTripID on a well-formed ID of no existing trip answers "trip
\* not found" whatever the body is; a request answered with one of the errors
\* invalid trip id, trip not found, invalid JSON, invalid input has not called
\* store.UpdateTrip, and the step that rejected it left the trips as they were.
C18_PutRejectionsChangeNothing ==
    /\ [](\A r \in Reqs :
            (DonePut(r) /\ req[r].id # BadID /\ req[r].state0 = "absent" /\ ~req[r].fault)
              => req[r].resp = MsgTripNotFound)
    /\ [](\A r \in Reqs : (DonePut(r) /\ req[r].resp \in PutErrors) => req[r].calls = 0)
    /\ [][\A r \in Reqs :
            (req[r].pc = "idle" /\ req'[r].op = "putTrip" /\ req'[r].pc = "done") =>
               /\ trips' = trips
               /\ req'[r].resp \in PutErrors \cup {MsgTryAgain}
               /\ req'[r].calls = 0]_vars

C18_Witness ==
    \E r1, r2 \in Reqs :
      /\ DonePut(r1) /\ req[r1].state0 = "absent" /\ req[r1].body.kind = "badjson"
      /\ req[r1].resp = MsgTripNotFound /\ req[r1].calls = 0
      /\ DonePut(r2) /\ req[r2].state0 = "unconfirmed"
      /\ req[r2].resp = MsgInvalidInput /\ req[r2].calls = 0

Emails(r, p) == Cardinality({i \in 1..Len(mail[r].sent) : mail[r].sent[i] = p})

Recipients(r) == {p \in PartIDs : participants[p].exists
                                   /\ participants[p].trip_id = mail[r].tripID}

\* C19: an invocation of SendTripConfirmedEmails that returns nil has sent
\* exactly one email to each participant of the trip; one that returns an
\* error of a delivery has emailed, once each, exactly the participants
\* before the failed one in the list it read, and nobody after; at no point
\* has any participant been sent two emails or anyone outside the trip one.
C19_FanoutStopsAtFirstFailure ==
    \A r \in Reqs : mail[r].pc \in {"sending", "returned"} =>
      /\ \A p \in PartIDs : Emails(r, p) <= 1
      /\ \A p \in PartIDs : Emails(r, p) = 1 => p \in Recipients(r)
      /\ Len(mail[r].sent) <= Len(mail[r].list)
      /\ \A i \in 1..Len(mail[r].sent) : mail[r].sent[i] = mail[r].list[i]
      /\ (mail[r].pc = "returned" /\ mail[r].result = "nil") =>
           \A p \in Recipients(r) : Emails(r, p) = 1
      /\ (mail[r].pc = "returned" /\ mail[r].result \in {"to_error", "send_error"}) =>
           Len(mail[r].sent) < Len(mail[r].list)
      /\ (mail[r].pc = "returned"
            /\ mail[r].result \in {"get_participants_error", "client_error"}) =>
           mail[r].sent = <<>>

C19_Witness ==
    /\ \E r \in Reqs : /\ mail[r].pc = "returned" /\ mail[r].result = "send_error"
                       /\ Len(mail[r].list) = MaxParts /\ Len(mail[r].sent) = 1
    /\ \E p \in PartIDs : participants[p].exists
====
